---------------------------- MODULE Spec2Model ----------------------------
(***************************************************************************)
(* Report generation workflow of ResearchPaper_generator:                  *)
(*   src/main.py                 pipeline orchestrator (retry, fallback)   *)
(*   src/src/report_generator.py planner, content generator, assembler     *)
(*                                                                         *)
(* A Python str is a sequence of characters.  Here a character is a       *)
(* string token: "#", " ", ".", "\n", a digit, or a whole word (a word is  *)
(* an atom: no operation of the program cuts inside a word).               *)
(***************************************************************************)
EXTENDS Integers, Sequences, FiniteSets, TLC

VARIABLES
    pc,            \* position in initialize_research_pipeline
    env,           \* os.getenv: which credentials are set
    max_retries,   \* argument of initialize_research_pipeline
    outline,       \* main.py:99
    sections,      \* main.py:145, the blocks of parse_outline_sections
    attempt,       \* loop variable of main.py:156
    blk,           \* loop variable i of main.py:222
    full_report,   \* main.py:210
    result,        \* the returned dict, or NoResult
    outcomes,      \* history: what each primary workflow invocation gave
    entries,       \* history: block index behind each full_report entry
    blockRaised,   \* history: indices of the blocks whose invocation raised
    calls,         \* history: counts of external actions
    asm,           \* the assembler under test (format_report called alone)
    gen,           \* the planner and the content generator under test
    call           \* the call of initialize_research_pipeline being bound

vars == <<pc, env, max_retries, outline, sections, attempt, blk, full_report,
          result, outcomes, entries, blockRaised, calls, asm, gen, call>>

-----------------------------------------------------------------------------
(* Bounds of the model *)

MaxRetriesBound == 2
MaxOutlineLines == 3
MaxAsmLines == 3
MaxDrops == 1

-----------------------------------------------------------------------------
(* Python evaluates an argument once, before the call.  Val({e : x \in {a}}) *)
(* does the same: a is evaluated once and e reads its value x.              *)

Val(S) == CHOOSE v \in S : TRUE

-----------------------------------------------------------------------------
(* Python str primitives *)

NL == "\n"
SP == " "
Digits == {"1", "2", "3", "4"}
Whitespace == {SP, NL}

\* str.startswith
StartsWith(s_, p_) ==
    Val({ Len(p) <= Len(s) /\ SubSeq(s, 1, Len(p)) = p : s \in {s_}, p \in {p_} })

\* sub in s
Contains(s_, sub_) ==
    Val({ \E i \in 1..(Len(s) - Len(sub) + 1) : SubSeq(s, i, i + Len(sub) - 1) = sub :
          s \in {s_}, sub \in {sub_} })

Drop(s_, n_) == Val({ SubSeq(s, n + 1, Len(s)) : s \in {s_}, n \in {n_} })

MinOf(S) == CHOOSE i \in S : \A j \in S : i <= j
MaxOf(S) == CHOOSE i \in S : \A j \in S : i >= j

\* index of the first character of s at or after i that is not in chars,
\* Len(s) + 1 when there is none
LeftIdx(s, chars, i) ==
    MinOf({j \in i..Len(s) : s[j] \notin chars} \cup {Len(s) + 1})

\* index of the last character of s that is not in chars, 0 when there is none
RightIdx(s, chars) ==
    MaxOf({j \in 1..Len(s) : s[j] \notin chars} \cup {0})

LStripChars(s_, chars) ==
    Val({ SubSeq(s, LeftIdx(s, chars, 1), Len(s)) : s \in {s_} })

RStripChars(s_, chars) ==
    Val({ SubSeq(s, 1, RightIdx(s, chars)) : s \in {s_} })

\* str.strip(chars)
StripChars(s_, chars) == RStripChars(LStripChars(s_, chars), chars)

\* str.strip()
Strip(s_) == StripChars(s_, Whitespace)

\* str.split(sep) for a one-character separator: never an empty list.
\* The k-th piece lies between the (k-1)-th and the k-th separator.
SplitAt(s, P) ==
    [k \in 1..(Cardinality(P) + 1) |->
        SubSeq(s,
               MaxOf({p \in P : Cardinality({q \in P : q <= p}) = k - 1} \cup {0}) + 1,
               MinOf({p \in P : Cardinality({q \in P : q <= p}) = k}
                     \cup {Len(s) + 1}) - 1)]

Split(s_, sep) ==
    Val({ SplitAt(s, {i \in 1..Len(s) : s[i] = sep}) : s \in {s_} })

SplitLines(s_) == Split(s_, NL)

\* sep.join(parts)
RECURSIVE JoinFrom(_, _, _)
JoinFrom(sep, parts, i_) ==
    Val({ IF i > Len(parts) THEN <<>>
          ELSE IF i = Len(parts) THEN parts[i]
          ELSE parts[i] \o sep \o JoinFrom(sep, parts, i + 1) :
          i \in {i_} })

Join(sep_, parts_) ==
    Val({ JoinFrom(sep, parts, 1) : sep \in {sep_}, parts \in {parts_} })

\* str.split(): the whitespace-separated words, none empty
Words(s_) ==
    Val({ Val({ [k \in 1..Cardinality(starts) |->
                    Val({ SubSeq(s, b, LeftIdx(s, {c \in {s[j] : j \in 1..Len(s)} :
                                                     c \notin Whitespace}, b) - 1) :
                          b \in {p \in starts :
                                   Cardinality({q \in starts : q <= p}) = k} })] :
                starts \in { {i \in 1..Len(s) :
                                /\ s[i] \notin Whitespace
                                /\ (i = 1 \/ s[i - 1] \in Whitespace)} } }) :
          s \in {s_} })

\* index of the first space of s, 0 when there is none
FirstSpace(s) == MinOf({i \in 1..Len(s) : s[i] = SP} \cup {Len(s) + 1}) % (Len(s) + 1)

\* s.split(" ", 1): one piece when s has no space, else two
SplitOnce(s_) ==
    Val({ IF i = 0 THEN <<s>> ELSE <<SubSeq(s, 1, i - 1), SubSeq(s, i + 1, Len(s))>> :
          s \in {s_}, i \in {FirstSpace(s_)} })

\* length of the longest prefix of s matching \d*
DigitRun(s_) == Val({ LeftIdx(s, Digits, 1) - 1 : s \in {s_} })

\* words whose lower-case form contains "introduction" / "conclusion"
IntroWords == {"Introduction", "introduction"}
ConclWords == {"Conclusion", "conclusion"}
\* words that contain "Conclusion" as written
ConclMarkers == {"Conclusion"}

HasWord(s_, ws) == Val({ \E i \in 1..Len(s) : s[i] \in ws : s \in {s_} })

-----------------------------------------------------------------------------
(* Python dict: insertion-ordered, as a sequence of <<key, value>> pairs *)

RECURSIVE DictIndexFrom(_, _, _)
DictIndexFrom(d, k, i_) ==
    Val({ IF i > Len(d) THEN 0 ELSE IF d[i][1] = k THEN i
          ELSE DictIndexFrom(d, k, i + 1) : i \in {i_} })

DictIndex(d_, k_) == Val({ DictIndexFrom(d, k, 1) : d \in {d_}, k \in {k_} })

DictHas(d_, k_) == DictIndex(d_, k_) # 0

DictGet(d_, k_) == Val({ d[DictIndex(d, k_)][2] : d \in {d_} })

\* d[k] = v : an existing key keeps its place
DictSet(d_, k_, v_) ==
    Val({ IF i = 0 THEN Append(d, <<k, v>>) ELSE [d EXCEPT ![i] = <<k, v>>] :
          d \in {d_}, k \in {k_}, v \in {v_}, i \in {DictIndex(d_, k_)} })

-----------------------------------------------------------------------------
(* The two oracles.  One record describes how they behave during one      *)
(* workflow invocation:                                                    *)
(*   fail     which call raises: none, a planner call, a content call, an  *)
(*            assembler call, or the workflow's own timeout                *)
(*   mentions whether generated prose contains the word "Conclusion"       *)
(*   verdict  the raw text answered to the classification prompt           *)
(*   short    whether the first answer to a query record is a short one    *)

FailKinds == {"none", "planner", "content", "assembler", "timeout"}
Verdicts ==
    { <<"LLM">>, <<"index">>, <<"Unsure">>, <<SP, "llm", NL>>,
      <<"LLM", SP, "INDEX">>, <<>> }

Oracles == [fail : FailKinds, mentions : BOOLEAN, verdict : Verdicts,
            short : BOOLEAN]

\* the behaviours drawn for an invocation made by the orchestrator; those
\* differing only in an answer the invocation never gets to use are drawn
\* once
RunOracles ==
    { o \in [fail : FailKinds, mentions : BOOLEAN, verdict : {<<"LLM">>, <<"Unsure">>},
             short : {FALSE}] :
        /\ o.fail \in {"planner", "assembler", "timeout"} =>
               ~o.mentions /\ o.verdict = <<"LLM">>
        /\ o.fail = "content" => o.verdict = <<"LLM">> }

\* str.upper, word by word, on the words a verdict can be made of
UpperWord(w) == CASE w \in {"llm", "LLM"} -> "LLM"
                  [] w \in {"index", "INDEX"} -> "INDEX"
                  [] w = "Unsure" -> "UNSURE"
                  [] OTHER -> w

Upper(s) == [i \in 1..Len(s) |-> UpperWord(s[i])]

\* prose returned by an oracle: the given word, which stands for a text
Prose(o, word) == IF o.mentions THEN <<word, SP, "Conclusion">> ELSE <<word>>

-----------------------------------------------------------------------------
(* src/src/report_generator.py: planner *)

\* line 55: re.match(r'^\d+\.\d+\.', line) or re.match(r'^\d+\.\d+\s', line)
SubsectionShaped(line_) ==
    Val({ /\ n1 > 0
          /\ Len(line) > n1 + 1
          /\ line[n1 + 1] = "."
          /\ Val({ /\ n2 > 0
                   /\ Len(line) > n1 + 1 + n2
                   /\ line[n1 + 2 + n2] \in {"."} \cup Whitespace :
                   n2 \in {DigitRun(SubSeq(line, n1 + 2, Len(line)))} }) :
          line \in {line_}, n1 \in {DigitRun(line_)} })

\* lines 8-11
extract_title(outl) ==
    Strip(StripChars(SplitLines(Strip(outl))[1], {"#", SP}))

\* lines 13-20: the query the completion oracle writes names what was asked
generate_query_with_llm(o, title, section, subsection) ==
    Strip(<<"Query", SP>> \o section \o <<"/">> \o subsection)

\* changed: the answer is stored as trimmed and upper-cased, not coerced
classify_query_Raw(o, query) == Upper(Strip(o.verdict))

\* lines 22-38
classify_query(o, query) ==
    Val({ IF classification \notin {<<"LLM">>, <<"INDEX">>} THEN <<"INDEX">>
          ELSE classification :
          classification \in {Upper(Strip(o.verdict))} })

\* lines 57-59, 64-66
QueryRecord(o, title, section, subsection) ==
    Val({ [query |-> query, classification |-> classify_query(o, query)] :
          query \in {generate_query_with_llm(o, title, section, subsection)} })

\* lines 57-58, 63-64: the query call raises ("planner"), or the
\* classification call after it ("classify"); the calls made until then
PlannerFails(o) == o.fail \in {"planner", "classify"}
CallsUntilRaise(o) == IF o.fail = "planner" THEN 1 ELSE 2

\* changed: a call that raised is made again
PlanLine_Retried(o, title, st_, rawline) ==
    Val({ IF st.raised \/ line = <<>> THEN st
          ELSE IF StartsWith(line, <<"#", "#", SP>>)
          THEN Val({ [st EXCEPT !.cur = cs, !.q = DictSet(st.q, cs, <<>>)] :
                     cs \in {Strip(StripChars(line, {"#", SP}))} })
          ELSE IF SubsectionShaped(line)
          THEN IF ~DictHas(st.q, st.cur)
               THEN [st EXCEPT !.raised = TRUE, !.ncalls = @ + 2]
               ELSE [st EXCEPT
                       !.q = DictSet(st.q, st.cur,
                               DictSet(DictGet(st.q, st.cur), line,
                                       QueryRecord(o, title, st.cur, line))),
                       !.ncalls = @ + 2 + IF PlannerFails(o) THEN 1 ELSE 0]
          ELSE st :
          st \in {st_}, line \in {Strip(rawline)} })

\* lines 47-59: one iteration of the loop on the state
\* [cur: current_section, q: queries, raised, ncalls]
PlanLine(o, title, st_, rawline) ==
    Val({ IF st.raised \/ line = <<>> THEN st
          ELSE IF StartsWith(line, <<"#", "#", SP>>)
          THEN Val({ [st EXCEPT !.cur = cs, !.q = DictSet(st.q, cs, <<>>)] :
                     cs \in {Strip(StripChars(line, {"#", SP}))} })
          ELSE IF SubsectionShaped(line)
          THEN IF PlannerFails(o) \/ ~DictHas(st.q, st.cur)
               THEN [st EXCEPT !.raised = TRUE,
                               !.ncalls = @ + CallsUntilRaise(o)]
               ELSE [st EXCEPT
                       !.q = DictSet(st.q, st.cur,
                               DictSet(DictGet(st.q, st.cur), line,
                                       QueryRecord(o, title, st.cur, line))),
                       !.ncalls = @ + 2]
          ELSE st :
          st \in {st_}, line \in {Strip(rawline)} })

RECURSIVE PlanLines(_, _, _, _, _)
PlanLines(o, title, st_, lines, i_) ==
    Val({ IF i > Len(lines) THEN st
          ELSE PlanLines(o, title, PlanLine(o, title, st, lines[i]), lines, i + 1) :
          st \in {st_}, i \in {i_} })

\* lines 61-66: sections without subsections
RECURSIVE PlanGeneral(_, _, _, _)
PlanGeneral(o, title, st_, i_) ==
    Val({ IF st.raised \/ i > Len(st.q) THEN st
          ELSE IF st.q[i][2] # <<>> THEN PlanGeneral(o, title, st, i + 1)
          ELSE IF PlannerFails(o)
          THEN [st EXCEPT !.raised = TRUE, !.ncalls = @ + CallsUntilRaise(o)]
          ELSE PlanGeneral(o, title,
                  [st EXCEPT !.q[i] = <<st.q[i][1],
                                <<  <<  <<"General">>,
                                        QueryRecord(o, title, st.q[i][1],
                                                    <<"General", SP, "overview">>) >>  >> >>,
                             !.ncalls = @ + 2],
                  i + 1) :
          st \in {st_}, i \in {i_} })

\* lines 40-68: [raised, queries, title, ncalls]
parse_outline_and_generate_queries(o, outl_) ==
    Val({ Val({ [raised |-> st.raised, queries |-> st.q, title |-> title,
                 ncalls |-> st.ncalls] :
                st \in {PlanGeneral(o, title,
                          PlanLines(o, title,
                                    [cur |-> <<>>, q |-> <<>>, raised |-> FALSE,
                                     ncalls |-> 0],
                                    lines, 2),
                          1)} }) :
          lines \in {SplitLines(Strip(outl_))}, title \in {extract_title(outl_)} })

-----------------------------------------------------------------------------
(* src/src/report_generator.py: content generator *)

\* len(s) in characters: a prose word stands for a paragraph
WordLen(w) == CASE w \in {"Answer", "Retrieved"} -> 60
                [] w = "Fifty" -> 50
                [] w = "FortyNine" -> 49
                [] w \in {"Introduction", "introduction"} -> 12
                [] w \in {"Conclusion", "conclusion", "Background"} -> 10
                [] w \in {"History", "Methods", "Results"} -> 7
                [] w \in {"Query", "Paper"} -> 5
                [] w \in {"Research", "Fallback"} -> 8
                [] w \in {"Report"} -> 6
                [] w \in {"Ok", "on"} -> 2
                [] OTHER -> 1

RECURSIVE TextLenFrom(_, _)
TextLenFrom(s, i_) ==
    Val({ IF i > Len(s) THEN 0 ELSE WordLen(s[i]) + TextLenFrom(s, i + 1) :
          i \in {i_} })

TextLen(s_) == Val({ TextLenFrom(s, 1) : s \in {s_} })

\* the quality gate of line 346
MinAnswerLen == 50

\* line 358
ErrorContent == <<"Content", SP, "could", SP, "not", SP, "be", SP, "generated",
                  SP, "for", SP, "this", SP, "subsection", SP, "due", SP, "to",
                  SP, "an", SP, "error", ":", SP, "OracleError">>

\* How the oracles answer for one query record: the first answer and the
\* answer to the fallback prompt are each long, short, empty, or the call
\* raises.  The fallback's answer is drawn once where it is never asked.
RecBehaviours ==
    { b \in [first : {"long", "len50", "len49", "short", "empty", "raise"},
             fallback : {"long", "short", "raise"}] :
        b.first \in {"long", "len50", "raise"} => b.fallback = "long" }

\* the behaviour an invocation's oracle record gives to every query record
BehaviourOf(o) ==
    [first |-> IF o.fail = "content" THEN "raise"
               ELSE IF o.short THEN "short" ELSE "long",
     fallback |-> "long"]

\* changed: the completion oracle is asked whatever the classification
FirstAsked_Completion(data) == "completion"

\* lines 327-343: which oracle the classification selects
FirstAsked(data) ==
    IF data.classification = <<"LLM">> THEN "completion" ELSE "retrieval"

\* lines 327-343: the first answer
FirstAnswer(o, b, data) ==
    CASE b.first = "short" -> <<"Ok">>
      [] b.first = "empty" -> <<>>
      [] b.first = "len50" -> <<"Fifty">>
      [] b.first = "len49" -> <<"FortyNine", SP>>
      [] OTHER -> IF data.classification = <<"LLM">>
                  THEN Prose(o, "Answer") \o <<SP>> \o data.query
                  ELSE Prose(o, "Retrieved") \o <<SP>> \o data.query

\* lines 349-350: the answer to the fallback prompt
FallbackAnswer(o, b, section, subsection) ==
    CASE b.fallback = "short" -> <<"Brief">>
      [] OTHER -> Prose(o, "Fallback") \o <<SP>> \o subsection \o <<"/">> \o section

\* changed: an exception leaves the record without the error message
RecordOutcome_ErrorLost(o, b, section, subsection, data) ==
    IF b.first = "raise"
    THEN [content |-> <<>>, asked |-> <<FirstAsked(data)>>]
    ELSE Val({ IF answer = <<>> \/ TextLen(Strip(answer)) < MinAnswerLen
               THEN [content |-> IF b.fallback = "raise" THEN <<>>
                                 ELSE FallbackAnswer(o, b, section, subsection),
                     asked |-> <<FirstAsked(data), "completion">>]
               ELSE [content |-> answer, asked |-> <<FirstAsked(data)>>] :
               answer \in {FirstAnswer(o, b, data)} })

\* changed: the quality gate is on the unstripped answer and lets an answer
\* of exactly MinAnswerLen - 1 characters plus padding through
RecordOutcome_Unstripped(o, b, section, subsection, data) ==
    IF b.first = "raise"
    THEN [content |-> ErrorContent, asked |-> <<FirstAsked(data)>>]
    ELSE Val({ IF answer = <<>> \/ TextLen(answer) < MinAnswerLen
               THEN [content |-> IF b.fallback = "raise" THEN ErrorContent
                                 ELSE FallbackAnswer(o, b, section, subsection),
                     asked |-> <<FirstAsked(data), "completion">>]
               ELSE [content |-> answer, asked |-> <<FirstAsked(data)>>] :
               answer \in {FirstAnswer(o, b, data)} })

\* lines 320-358 for one record: the content stored, and the oracles asked
\* in order
RecordOutcome(o, b, section, subsection, data) ==
    IF b.first = "raise"
    THEN [content |-> ErrorContent, asked |-> <<FirstAsked(data)>>]
    ELSE Val({ IF answer = <<>> \/ TextLen(Strip(answer)) < MinAnswerLen
               THEN [content |-> IF b.fallback = "raise" THEN ErrorContent
                                 ELSE FallbackAnswer(o, b, section, subsection),
                     asked |-> <<FirstAsked(data), "completion">>]
               ELSE [content |-> answer, asked |-> <<FirstAsked(data)>>] :
               answer \in {FirstAnswer(o, b, data)} })

\* lines 320-358 for one record, every record answered alike
RecordContent(o, section, subsection, data) ==
    RecordOutcome(o, BehaviourOf(o), section, subsection, data).content

\* lines 316-358 for one section
SectionContent(o, section, subsections) ==
    [j \in 1..Len(subsections) |->
        <<subsections[j][1],
          RecordContent(o, section, subsections[j][1], subsections[j][2])>>]

RECURSIVE GenerateFrom(_, _, _, _)
GenerateFrom(o, queries, i_, acc_) ==
    Val({ IF i > Len(queries) THEN acc
          ELSE GenerateFrom(o, queries, i + 1,
                  DictSet(acc, queries[i][1],
                          SectionContent(o, queries[i][1], queries[i][2]))) :
          i \in {i_}, acc \in {acc_} })

\* lines 309-360
generate_section_content(o, queries_) ==
    Val({ GenerateFrom(o, queries, 1, <<>>) : queries \in {queries_} })

-----------------------------------------------------------------------------
(* src/src/report_generator.py: assembler *)

\* line 177, re.match(r'^(\d+\.)\s*(.*)$', section_text): <<matched, number, title>>
SectionMatch(text_) ==
    Val({ IF n > 0 /\ Len(text) > n /\ text[n + 1] = "."
          THEN <<TRUE, SubSeq(text, 1, n + 1),
                 LStripChars(SubSeq(text, n + 2, Len(text)), Whitespace)>>
          ELSE <<FALSE, <<>>, <<>>>> :
          text \in {text_}, n \in {DigitRun(text_)} })

\* line 197, re.match(r'^(\d+\.\d+)\.?\s*(.*)$', line) on a subsection-shaped
\* line: <<number, title>>
SubsectionMatch(line_) ==
    Val({ Val({ <<SubSeq(line, 1, n1 + 1 + n2),
                  LStripChars(SubSeq(line,
                                     IF line[n1 + 2 + n2] = "." THEN n1 + 3 + n2
                                                                ELSE n1 + 2 + n2,
                                     Len(line)),
                              Whitespace)>> :
                n2 \in {DigitRun(SubSeq(line, n1 + 2, Len(line)))} }) :
          line \in {line_}, n1 \in {DigitRun(line_)} })

\* str(len(sections) + 1) for the section counts of the model
IntToStr(n) == CASE n = 1 -> <<"1">> [] n = 2 -> <<"2">> [] n = 3 -> <<"3">>
                 [] n = 4 -> <<"4">> [] n = 5 -> <<"5">> [] n = 6 -> <<"6">>
                 [] n = 7 -> <<"7">> [] n = 8 -> <<"8">> [] OTHER -> <<"9">>

\* changed: a numbered section is renumbered by its position
StructLine_Renumbered(secs_, rawline) ==
    Val({ IF line = <<>> THEN secs
          ELSE IF StartsWith(line, <<"#", "#", SP>>)
          THEN Val({ IF m[1]
                     THEN Append(secs, [number |-> IntToStr(Len(secs) + 1) \o <<".">>,
                                        title |-> m[3],
                                        subsections |-> <<>>])
                     ELSE Append(secs, [number |-> IntToStr(Len(secs) + 1) \o <<".">>,
                                        title |-> section_text,
                                        subsections |-> <<>>]) :
                     section_text \in {Strip(StripChars(line, {"#", SP}))},
                     m \in {SectionMatch(Strip(StripChars(line, {"#", SP})))} })
          ELSE IF secs # <<>> /\ SubsectionShaped(line)
          THEN Val({ [secs EXCEPT ![Len(secs)].subsections =
                         Append(@, [number |-> m[1] \o <<".">>, title |-> m[2]])] :
                     m \in {SubsectionMatch(line)} })
          ELSE secs :
          secs \in {secs_}, line \in {Strip(rawline)} })

\* changed: a subsection is attached to the first section, not the current
StructLine_FirstSection(secs_, rawline) ==
    Val({ IF line = <<>> THEN secs
          ELSE IF StartsWith(line, <<"#", "#", SP>>)
          THEN Val({ IF m[1]
                     THEN Append(secs, [number |-> m[2], title |-> m[3],
                                        subsections |-> <<>>])
                     ELSE Append(secs, [number |-> IntToStr(Len(secs) + 1) \o <<".">>,
                                        title |-> section_text,
                                        subsections |-> <<>>]) :
                     section_text \in {Strip(StripChars(line, {"#", SP}))},
                     m \in {SectionMatch(Strip(StripChars(line, {"#", SP})))} })
          ELSE IF secs # <<>> /\ SubsectionShaped(line)
          THEN Val({ [secs EXCEPT ![1].subsections =
                         Append(@, [number |-> m[1] \o <<".">>, title |-> m[2]])] :
                     m \in {SubsectionMatch(line)} })
          ELSE secs :
          secs \in {secs_}, line \in {Strip(rawline)} })

\* lines 169-203: one iteration of the loop; secs is the list of sections
StructLine(secs_, rawline) ==
    Val({ IF line = <<>> THEN secs
          ELSE IF StartsWith(line, <<"#", "#", SP>>)
          THEN Val({ IF m[1]
                     THEN Append(secs, [number |-> m[2], title |-> m[3],
                                        subsections |-> <<>>])
                     ELSE Append(secs, [number |-> IntToStr(Len(secs) + 1) \o <<".">>,
                                        title |-> section_text,
                                        subsections |-> <<>>]) :
                     section_text \in {Strip(StripChars(line, {"#", SP}))},
                     m \in {SectionMatch(Strip(StripChars(line, {"#", SP})))} })
          ELSE IF secs # <<>> /\ SubsectionShaped(line)
          THEN Val({ [secs EXCEPT ![Len(secs)].subsections =
                         Append(@, [number |-> m[1] \o <<".">>, title |-> m[2]])] :
                     m \in {SubsectionMatch(line)} })
          ELSE secs :
          secs \in {secs_}, line \in {Strip(rawline)} })

RECURSIVE StructLines(_, _, _)
StructLines(secs_, lines, i_) ==
    Val({ IF i > Len(lines) THEN secs
          ELSE StructLines(StructLine(secs, lines[i]), lines, i + 1) :
          secs \in {secs_}, i \in {i_} })

\* lines 163-205
_parse_outline_structure(outl_) ==
    Val({ StructLines(<<>>, lines, 2) : lines \in {SplitLines(Strip(outl_))} })

\* lines 211-218, 243-250: the content samples put into the prompt, at most
\* MaxSnippets, each with the section key it was taken from: the first
\* perSection values of every section whose key has none of the words skip
MaxSnippets == 5

RECURSIVE SnippetsFrom(_, _, _, _)
SnippetsFrom(section_contents, skip, perSection, i_) ==
    Val({ IF i > Len(section_contents) THEN <<>>
          ELSE (IF HasWord(section_contents[i][1], skip) THEN <<>>
                ELSE [k \in 1..MinOf({perSection, Len(section_contents[i][2])}) |->
                         [section |-> section_contents[i][1],
                          text |-> section_contents[i][2][k][2]]])
               \o SnippetsFrom(section_contents, skip, perSection, i + 1) :
          i \in {i_} })

Snippets(section_contents, skip, perSection) ==
    Val({ SubSeq(all, 1, MinOf({MaxSnippets, Len(all)})) :
          all \in {SnippetsFrom(section_contents, skip, perSection, 1)} })

\* lines 211-218
IntroductionSnippets(section_contents) == Snippets(section_contents, IntroWords, 2)

\* lines 243-250
ConclusionSnippets(section_contents) == Snippets(section_contents, ConclWords, 1)

\* lines 223, 255: s.split(" ", 1)[1] raises IndexError on a key without a space
TopicsRaise(section_contents, skip) ==
    \E i \in 1..Len(section_contents) :
        /\ ~HasWord(section_contents[i][1], skip)
        /\ Len(SplitOnce(section_contents[i][1])) < 2

\* lines 207-237: <<raised, text>>
_generate_introduction(o, title, section_contents) ==
    IF TopicsRaise(section_contents, IntroWords) \/ o.fail = "assembler"
    THEN <<TRUE, <<>>>>
    ELSE <<FALSE, Prose(o, "OpeningProse")>>

\* lines 239-269: <<raised, text>>
_generate_conclusion(o, title, section_contents) ==
    IF TopicsRaise(section_contents, IntroWords \cup ConclWords)
       \/ o.fail = "assembler"
    THEN <<TRUE, <<>>>>
    ELSE <<FALSE, Prose(o, "ClosingProse")>>

\* lines 271-293: <<raised, text>>
_generate_section_overview(o, section, subsection_contents) ==
    IF o.fail = "assembler" THEN <<TRUE, <<>>>>
    ELSE <<FALSE, Prose(o, "OverviewProse")>>

\* lines 295-307: <<raised, text>>
_generate_placeholder_content(o, report_title, section_title, subsection_title) ==
    IF o.fail = "assembler" THEN <<TRUE, <<>>>>
    ELSE <<FALSE, Prose(o, "PlaceholderProse") \o <<SP>> \o section_title
                  \o <<"/">> \o subsection_title>>

\* f"{marks} {number} {title}"
Heading(marks, number, title) == marks \o <<SP>> \o number \o <<SP>> \o title

\* lines 139-154 for one subsection: <<raised, text>>
FormatSubsection(o, title, section_info, sec_contents, subsection) ==
    Val({ IF DictHas(sec_contents, subsection_key)
          THEN <<FALSE, head \o DictGet(sec_contents, subsection_key) \o <<NL, NL>>>>
          ELSE Val({ <<ph[1], head \o ph[2] \o <<NL, NL>>>> :
                     ph \in {_generate_placeholder_content(o, title,
                                section_info.title, subsection.title)} }) :
          subsection_key \in {subsection.number \o <<SP>> \o subsection.title},
          head \in {Heading(<<"#", "#", "#">>, subsection.number, subsection.title)
                    \o <<NL, NL>>} })

RECURSIVE FormatSubsections(_, _, _, _, _)
FormatSubsections(o, title, section_info, sec_contents, i_) ==
    Val({ IF i > Len(section_info.subsections) THEN <<FALSE, <<>>>>
          ELSE Val({ IF one[1] THEN one
                     ELSE Val({ <<rest[1], one[2] \o rest[2]>> :
                                rest \in {FormatSubsections(o, title, section_info,
                                                            sec_contents, i + 1)} }) :
                     one \in {FormatSubsection(o, title, section_info, sec_contents,
                                               section_info.subsections[i])} }) :
          i \in {i_} })

\* lines 129-154: a regular section whose key is in section_contents
FormatRegular(o, title, section_info, section_key, head, sc_) ==
    Val({ Val({ IF ov[1] THEN ov
                ELSE Val({ <<subs[1], head \o ov[2] \o subs[2]>> :
                           subs \in {FormatSubsections(o, title, section_info, sc, 1)} }) :
                ov \in {IF Len(section_info.subsections) > 0
                        THEN Val({ <<g[1], g[2] \o <<NL, NL>>>> :
                                   g \in {_generate_section_overview(o, section_key, sc)} })
                        ELSE <<FALSE, <<>>>>} }) :
          sc \in {sc_} })

\* changed: introduction and conclusion sections are assembled from the
\* content map like any other section
FormatSection_FromMap(o, title, section_contents, section_info) ==
    Val({ IF DictHas(section_contents, section_key)
          THEN FormatRegular(o, title, section_info, section_key, head,
                             DictGet(section_contents, section_key))
          ELSE Val({ <<ph[1], head \o ph[2] \o <<NL, NL>>>> :
                     ph \in {_generate_placeholder_content(o, title,
                                section_info.title, <<>>)} }) :
          section_key \in {section_info.number \o <<SP>> \o section_info.title},
          head \in {Heading(<<"#", "#">>, section_info.number, section_info.title)
                    \o <<NL, NL>>} })

\* lines 106-159 for one section: <<raised, text>>
FormatSection(o, title, section_contents, section_info) ==
    Val({ IF HasWord(section_info.title, IntroWords)
          THEN Val({ <<g[1], head \o g[2] \o <<NL, NL>>>> :
                     g \in {_generate_introduction(o, title, section_contents)} })
          ELSE IF HasWord(section_info.title, ConclWords)
          THEN Val({ <<g[1], head \o g[2] \o <<NL, NL>>>> :
                     g \in {_generate_conclusion(o, title, section_contents)} })
          ELSE IF DictHas(section_contents, section_key)
          THEN FormatRegular(o, title, section_info, section_key, head,
                             DictGet(section_contents, section_key))
          ELSE Val({ <<ph[1], head \o ph[2] \o <<NL, NL>>>> :
                     ph \in {_generate_placeholder_content(o, title,
                                section_info.title, <<>>)} }) :
          section_key \in {section_info.number \o <<SP>> \o section_info.title},
          head \in {Heading(<<"#", "#">>, section_info.number, section_info.title)
                    \o <<NL, NL>>} })

RECURSIVE FormatSections(_, _, _, _, _)
FormatSections(o, title, section_contents, secs, i_) ==
    Val({ IF i > Len(secs) THEN <<FALSE, <<>>>>
          ELSE Val({ IF one[1] THEN one
                     ELSE Val({ <<rest[1], one[2] \o rest[2]>> :
                                rest \in {FormatSections(o, title, section_contents,
                                                         secs, i + 1)} }) :
                     one \in {FormatSection(o, title, section_contents, secs[i])} }) :
          i \in {i_} })

\* lines 94-161: [raised, report]
format_report(o, section_contents_, title_, outl_) ==
    Val({ Val({ [raised |-> body[1],
                 report |-> IF body[1] THEN <<>>
                            ELSE <<"#", SP>> \o title \o <<NL, NL>> \o body[2]] :
                body \in {FormatSections(o, title, section_contents, secs, 1)} }) :
          section_contents \in {section_contents_}, title \in {title_},
          secs \in {_parse_outline_structure(outl_)} })

\* agent.run(outline=...): the steps queries_generation_event and
\* generate_report, lines 362-389: [raised, response]
AgentRun(o, outl_) ==
    IF o.fail = "timeout" THEN [raised |-> TRUE, response |-> <<>>]
    ELSE Val({ IF plan.raised THEN [raised |-> TRUE, response |-> <<>>]
               ELSE Val({ [raised |-> rep.raised, response |-> rep.report] :
                          rep \in {format_report(o,
                                      generate_section_content(o, plan.queries),
                                      plan.title, outl)} }) :
               outl \in {outl_},
               plan \in {parse_outline_and_generate_queries(o, outl_)} })

-----------------------------------------------------------------------------
(* src/main.py: pure helpers *)

TitlePrefix == <<"#", SP, "Research", SP, "Paper">>
QueryText == <<"X">>

\* lines 57-68, on the text the completion oracle returned
generate_outline_from_query(query, text) ==
    Val({ IF /\ ~Contains(o2, <<"#", "#", SP, "Conclusion">>)
             /\ ~Contains(o2, <<"#", "#", SP, "4", ".", SP, "Conclusion">>)
          THEN o2 \o <<NL, NL, "#", "#", SP, "4", ".", SP, "Conclusion">>
          ELSE o2 :
          o2 \in { Val({ IF ~StartsWith(o1, TitlePrefix)
                         THEN TitlePrefix \o <<SP, "Report", SP, "on", SP>> \o query
                              \o <<NL, NL>> \o o1
                         ELSE o1 :
                         o1 \in {Strip(text)} }) } })

\* changed: a blank line is left out of its block
SectionsLine_BlankSkipped(st_, line_) ==
    Val({ IF StartsWith(line, <<"#", "#", SP>>)
          THEN <<IF st[2] # <<>> THEN Append(st[1], Join(<<NL>>, st[2])) ELSE st[1],
                 <<line>>>>
          ELSE IF line = <<>> THEN st
          ELSE <<st[1], Append(st[2], line)>> :
          st \in {st_}, line \in {line_} })

\* lines 195-201 on <<sections, current_section>>
SectionsLine(st_, line_) ==
    Val({ IF StartsWith(line, <<"#", "#", SP>>)
          THEN <<IF st[2] # <<>> THEN Append(st[1], Join(<<NL>>, st[2])) ELSE st[1],
                 <<line>>>>
          ELSE <<st[1], Append(st[2], line)>> :
          st \in {st_}, line \in {line_} })

RECURSIVE SectionsLines(_, _, _)
SectionsLines(st_, lines, i_) ==
    Val({ IF i > Len(lines) THEN st
          ELSE SectionsLines(SectionsLine(st, lines[i]), lines, i + 1) :
          st \in {st_}, i \in {i_} })

\* lines 189-206
parse_outline_sections(outl) ==
    Val({ IF st[2] # <<>> THEN Append(st[1], Join(<<NL>>, st[2])) ELSE st[1] :
          st \in { Val({ SectionsLines(<<  <<>>, <<>>  >>, lines, 1) :
                         lines \in {SplitLines(Strip(outl))} }) } })

\* lines 243-246: start_idx, as a 1-based index
RECURSIVE FirstSectionLine(_, _)
FirstSectionLine(lines, i_) ==
    Val({ IF i > Len(lines) THEN 1
          ELSE IF StartsWith(lines[i], <<"#", "#", SP>>) THEN i
          ELSE FirstSectionLine(lines, i + 1) :
          i \in {i_} })

\* lines 237-248
extract_section_content(section_text) ==
    Val({ Join(<<NL>>, SubSeq(lines, FirstSectionLine(lines, 1), Len(lines))) :
          lines \in {SplitLines(Strip(section_text))} })

StubText == <<"Content", SP, "generation", SP, "incomplete", SP, "for", SP,
              "this", SP, "section", ".">>

\* line 233: <<raised, text>>; split()[1] raises IndexError on a one-word block
SectionStub(section_outline) ==
    Val({ IF Len(ws) < 2 THEN <<TRUE, <<>>>>
          ELSE <<FALSE, <<NL, "#", "#", SP>> \o ws[2] \o <<NL, NL>> \o StubText
                        \o <<NL>>>> :
          ws \in {Words(Strip(section_outline))} })

\* changed: any non-empty response is accepted as complete
ReportComplete_AnyText(response) == response # <<>>

\* changed: the marker is looked for in lower case
ReportComplete_LowerCase(response) ==
    response # <<>> /\ HasWord(response, {"conclusion"})

\* line 162
ReportComplete(response) == response # <<>> /\ HasWord(response, ConclMarkers)

\* changed: only the absence of both keys is an error
KeysMissing_Both(e) == ~e.OPENAI_API_KEY /\ ~e.LLAMA_CLOUD_API_KEY

\* line 86
KeysMissing(e) == ~e.OPENAI_API_KEY \/ ~e.LLAMA_CLOUD_API_KEY

\* changed: the exception of the last attempt is swallowed too
RetryAfterError_Always(a, retries) == TRUE

\* line 174: an exception is retried, else re-raised
RetryAfterError(a, retries) == a < retries - 1

\* changed: one attempt more than max_retries
InRange_OneMore(attempt_, max_retries_) == attempt_ <= max_retries_

\* line 156: attempt in range(max_retries)
InRange(attempt_, max_retries_) == attempt_ < max_retries_

\* lines 213-215
IntroOutline(secs) ==
    IF Len(secs) > 1 THEN secs[1] \o <<NL>> \o secs[2] ELSE secs[1]

\* changed: the new entry is put in front
AddEntry_InFront(report, text) == <<text>> \o report

\* lines 219, 229, 233: full_report.append(text)
AddEntry(report, text) == Append(report, text)

-----------------------------------------------------------------------------
(* Inputs of the model *)

SeqsUpTo(S, n) == UNION {[1..k -> S] : k \in 0..n}

SectionLine(number, word) == <<"#", "#", SP>> \o number \o <<word>>

\* lines the completion oracle may write in an outline
OutlineLines ==
    { SectionLine(<<"2", ".", SP>>, "Background"),
      <<"2", ".", "1", ".", SP, "History">>,
      SectionLine(<<"4", ".", SP>>, "Conclusion"),
      <<"#">> \o SectionLine(<<"4", ".", SP>>, "Conclusion") }

TitleLine == TitlePrefix \o <<SP, "Report", SP, "on", SP>> \o QueryText

\* texts the completion oracle may answer to the outline prompt
RawOutlines ==
    { Join(<<NL>>, head \o body) :
        head \in {<<>>, <<TitleLine>>},
        body \in SeqsUpTo(OutlineLines, MaxOutlineLines) }

-----------------------------------------------------------------------------
(* src/main.py: initialize_research_pipeline as a state machine *)

NoResult == [status |-> "none", where |-> "", response |-> <<>>,
             outline |-> <<>>, success |-> FALSE]

Raised(where) == [NoResult EXCEPT !.status = "raised", !.where = where]

Returned(response, outl) ==
    [status |-> "returned", where |-> "", response |-> response,
     outline |-> outl, success |-> TRUE]

NoAsm == [stage |-> "off"]
NoGen == [stage |-> "off"]
NoCall == [stage |-> "off"]

Init ==
    /\ pc = "start"
    /\ env \in [OPENAI_API_KEY : BOOLEAN, LLAMA_CLOUD_API_KEY : BOOLEAN]
    /\ max_retries \in 0..MaxRetriesBound
    /\ outline = <<>>
    /\ sections = <<>>
    /\ attempt = 0
    /\ blk = 0
    /\ full_report = <<>>
    /\ result = NoResult
    /\ outcomes = <<>>
    /\ entries = <<>>
    /\ blockRaised = {}
    /\ calls = [llm |-> 0, corpus |-> 0, workflow |-> 0, fallback |-> 0]
    /\ asm = NoAsm
    /\ gen = NoGen
    /\ call = NoCall

\* lines 82-87
CheckKeys ==
    /\ pc = "start"
    /\ IF KeysMissing(env)
       THEN pc' = "raised" /\ result' = Raised("config")
       ELSE pc' = "outline" /\ UNCHANGED result
    /\ UNCHANGED <<env, max_retries, outline, sections, attempt, blk, full_report,
                   outcomes, entries, blockRaised, calls, asm, gen, call>>

\* lines 97-99: one completion-oracle call, which may raise
OutlineStage ==
    /\ pc = "outline"
    /\ calls' = [calls EXCEPT !.llm = @ + 1]
    /\ \/ /\ pc' = "raised" /\ result' = Raised("outline")
          /\ UNCHANGED outline
       \/ \E text \in RawOutlines :
            /\ outline' = generate_outline_from_query(QueryText, text)
            /\ pc' = "corpus"
            /\ UNCHANGED result
    /\ UNCHANGED <<env, max_retries, sections, attempt, blk, full_report,
                   outcomes, entries, blockRaised, asm, gen, call>>

\* lines 105-153: download, parse, index (external; succeeds or raises),
\* then the blocks of the outline
CorpusStage ==
    /\ pc = "corpus"
    /\ calls' = [calls EXCEPT !.corpus = @ + 1]
    /\ \/ /\ pc' = "raised" /\ result' = Raised("corpus")
          /\ UNCHANGED <<sections, attempt>>
       \/ /\ sections' = parse_outline_sections(outline)
          /\ attempt' = 0
          /\ pc' = "attempt"
          /\ UNCHANGED result
    /\ UNCHANGED <<env, max_retries, outline, blk, full_report,
                   outcomes, entries, blockRaised, asm, gen, call>>

\* lines 156-178: one iteration of the retry loop
Attempt ==
    /\ pc = "attempt"
    /\ InRange(attempt, max_retries)
    /\ calls' = [calls EXCEPT !.workflow = @ + 1]
    /\ \E o \in RunOracles : \E report \in {AgentRun(o, outline)} :
             IF report.raised
             THEN /\ outcomes' = Append(outcomes, report)
                  /\ IF RetryAfterError(attempt, max_retries)
                     THEN /\ attempt' = attempt + 1
                          /\ UNCHANGED <<pc, result>>
                     ELSE /\ pc' = "raised"
                          /\ result' = Raised("attempt")
                          /\ UNCHANGED attempt
             ELSE IF ReportComplete(report.response)
             THEN /\ outcomes' = Append(outcomes, report)
                  /\ pc' = "returned"
                  /\ result' = Returned(report.response, outline)
                  /\ UNCHANGED attempt
             ELSE /\ outcomes' = Append(outcomes, report)
                  /\ attempt' = attempt + 1
                  /\ UNCHANGED <<pc, result>>
    /\ UNCHANGED <<env, max_retries, outline, sections, blk, full_report,
                   entries, blockRaised, asm, gen, call>>

\* lines 180-181: the loop ended without returning
EnterFallback ==
    /\ pc = "attempt"
    /\ ~InRange(attempt, max_retries)
    /\ pc' = "fallback_intro"
    /\ calls' = [calls EXCEPT !.fallback = @ + 1]
    /\ UNCHANGED <<env, max_retries, outline, sections, attempt, blk, full_report,
                   result, outcomes, entries, blockRaised, asm, gen, call>>

\* lines 210-219: the title block and the first section, in one invocation
FallbackIntro ==
    /\ pc = "fallback_intro"
    /\ calls' = [calls EXCEPT !.workflow = @ + 1]
    /\ \E o \in RunOracles :
        \E intro_result \in {AgentRun(o, IntroOutline(sections))} :
             IF intro_result.raised
             THEN /\ pc' = "raised"
                  /\ result' = Raised("fallback")
                  /\ blockRaised' = blockRaised \cup {0}
                  /\ UNCHANGED <<full_report, entries, blk>>
             ELSE /\ IF intro_result.response # <<>>
                     THEN /\ full_report' = AddEntry(full_report, intro_result.response)
                          /\ entries' = Append(entries, 0)
                     ELSE UNCHANGED <<full_report, entries>>
                  /\ blk' = 2
                  /\ pc' = "fallback_loop"
                  /\ UNCHANGED <<result, blockRaised>>
    /\ UNCHANGED <<env, max_retries, outline, sections, attempt, outcomes, asm, gen, call>>

\* lines 222-233: one iteration; blk is Python's i, the block is sections[i]
FallbackBlock ==
    /\ pc = "fallback_loop"
    /\ blk < Len(sections)
    /\ calls' = [calls EXCEPT !.workflow = @ + 1]
    /\ \E o \in RunOracles :
        \E section_result \in {AgentRun(o, sections[blk + 1])},
           stub \in {SectionStub(sections[blk + 1])} :
             IF section_result.raised
             THEN /\ blockRaised' = blockRaised \cup {blk}
                  /\ IF stub[1]
                     THEN /\ pc' = "raised"
                          /\ result' = Raised("fallback")
                          /\ UNCHANGED <<full_report, entries, blk>>
                     ELSE /\ full_report' = AddEntry(full_report, stub[2])
                          /\ entries' = Append(entries, blk)
                          /\ blk' = blk + 1
                          /\ UNCHANGED <<pc, result>>
             ELSE /\ IF section_result.response # <<>>
                     THEN /\ full_report' =
                               AddEntry(full_report,
                                        extract_section_content(section_result.response))
                          /\ entries' = Append(entries, blk)
                     ELSE UNCHANGED <<full_report, entries>>
                  /\ blk' = blk + 1
                  /\ UNCHANGED <<pc, result, blockRaised>>
    /\ UNCHANGED <<env, max_retries, outline, sections, attempt, outcomes, asm, gen, call>>

\* lines 235, 183-187
FallbackReturn ==
    /\ pc = "fallback_loop"
    /\ blk >= Len(sections)
    /\ pc' = "returned"
    /\ result' = Returned(Join(<<NL, NL>>, full_report), outline)
    /\ UNCHANGED <<env, max_retries, outline, sections, attempt, blk, full_report,
                   outcomes, entries, blockRaised, calls, asm, gen, call>>

Next ==
    \/ CheckKeys
    \/ OutlineStage
    \/ CorpusStage
    \/ Attempt
    \/ EnterFallback
    \/ FallbackIntro
    \/ FallbackBlock
    \/ FallbackReturn

Spec == Init /\ [][Next]_vars

-----------------------------------------------------------------------------
(* The workflow's steps run one by one on an outline, so that the content  *)
(* map handed to format_report can be looked at, and can lack entries.     *)
(* asm = [stage, outline, title, queries, contents, drops, oracle, out]    *)

\* lines the outlines of this specification are made of
AsmLines ==
    { SectionLine(<<"1", ".", SP>>, "Introduction"),
      SectionLine(<<"2", ".", SP>>, "Background"),
      <<"2", ".", "1", ".", SP, "History">>,
      <<"2", ".", "2", SP, "Methods">>,
      SectionLine(<<>>, "Results"),
      SectionLine(<<"4", ".", SP>>, "Conclusion") }

AsmOutlines ==
    { Join(<<NL>>, <<TitleLine>> \o body) : body \in SeqsUpTo(AsmLines, MaxAsmLines) }

\* oracle behaviours while planning and generating content
ContentOracles ==
    { o \in [fail : {"none", "content"}, mentions : {FALSE},
             verdict : {<<"LLM">>, <<"Unsure">>}, short : BOOLEAN] :
        o.fail = "content" => o.verdict = <<"LLM">> /\ ~o.short }

\* oracle behaviours while assembling
AssemblyOracles ==
    { o \in [fail : {"none", "assembler"}, mentions : BOOLEAN,
             verdict : {<<"LLM">>}, short : {FALSE}] :
        o.fail = "assembler" => ~o.mentions }

NoOracle == [fail |-> "none", mentions |-> FALSE, verdict |-> <<"LLM">>, short |-> FALSE]
NoOut == [raised |-> FALSE, report |-> <<>>]

Idle ==
    /\ pc = "idle"
    /\ env = [OPENAI_API_KEY |-> TRUE, LLAMA_CLOUD_API_KEY |-> TRUE]
    /\ max_retries = 0
    /\ outline = <<>>
    /\ sections = <<>>
    /\ attempt = 0
    /\ blk = 0
    /\ full_report = <<>>
    /\ result = NoResult
    /\ outcomes = <<>>
    /\ entries = <<>>
    /\ blockRaised = {}
    /\ calls = [llm |-> 0, corpus |-> 0, workflow |-> 0, fallback |-> 0]

orch == <<pc, env, max_retries, outline, sections, attempt, blk, full_report,
          result, outcomes, entries, blockRaised, calls>>

InitAsm ==
    /\ Idle
    /\ gen = NoGen
    /\ call = NoCall
    /\ \E outl \in AsmOutlines :
         asm = [stage |-> "start", outline |-> outl, title |-> <<>>,
                queries |-> <<>>, contents |-> <<>>, drops |-> 0,
                oracle |-> NoOracle, out |-> NoOut]

\* lines 362-371 and 379-383: queries_generation_event, then
\* generate_section_content
AsmGenerate ==
    /\ asm.stage = "start"
    /\ \E o \in ContentOracles :
       \E plan \in {parse_outline_and_generate_queries(o, asm.outline)} :
          IF plan.raised
          THEN asm' = [asm EXCEPT !.stage = "raised"]
          ELSE asm' = [asm EXCEPT !.stage = "generated",
                                  !.title = plan.title,
                                  !.queries = plan.queries,
                                  !.contents =
                                      generate_section_content(o, plan.queries)]
    /\ UNCHANGED <<orch, gen, call>>

\* changed: the entries read for the report are removed from the map
InputAfterFormat_Consumed(section_contents) == <<>>

\* lines 94-307: the content map object format_report was given, as the
\* caller sees it afterwards.  format_report and the helpers it calls only
\* read it (`in`, indexing, .items(), .keys(), list(.values())): there is
\* no assignment to it or to a value in it.
InputAfterFormat(section_contents) == section_contents

RemoveAt(seq, i) == SubSeq(seq, 1, i - 1) \o SubSeq(seq, i + 1, Len(seq))

\* a content map lacking an entry: a whole section, or one subsection
AsmDrop ==
    /\ asm.stage = "generated"
    /\ asm.drops < MaxDrops
    /\ \E i \in 1..Len(asm.contents) :
         \/ asm' = [asm EXCEPT !.contents = RemoveAt(@, i), !.drops = @ + 1]
         \/ \E j \in 1..Len(asm.contents[i][2]) :
              asm' = [asm EXCEPT !.contents[i] =
                                     <<asm.contents[i][1],
                                       RemoveAt(asm.contents[i][2], j)>>,
                                 !.drops = @ + 1]
    /\ UNCHANGED <<orch, gen, call>>

\* line 386
AsmFormat ==
    /\ asm.stage = "generated"
    /\ \E o \in AssemblyOracles :
         asm' = [asm EXCEPT !.stage = "done",
                            !.oracle = o,
                            !.contents = InputAfterFormat(@),
                            !.out = format_report(o, asm.contents, asm.title,
                                                  asm.outline)]
    /\ UNCHANGED <<orch, gen, call>>

NextAsm == AsmGenerate \/ AsmDrop \/ AsmFormat

SpecAsm == InitAsm /\ [][NextAsm]_vars

\* the two steps of the workflow alone: the content map reaches
\* format_report as generate_section_content built it
NextWorkflow == AsmGenerate \/ AsmFormat

SpecWorkflow == InitAsm /\ [][NextWorkflow]_vars

-----------------------------------------------------------------------------
(* The planner, the structure parser and the content generator on their    *)
(* own.  gen = [stage, outline, oracle, queries, title, parsed, structure, *)
(* i, j, contents, log, ncalls]; log has one entry per query record        *)
(* processed, ncalls counts the planner's completion-oracle calls.         *)

\* the example outline of the documentation
ExampleOutline ==
    Join(<<NL>>,
         << TitleLine, <<>>,
            SectionLine(<<"1", ".", SP>>, "Introduction"), <<>>,
            SectionLine(<<"2", ".", SP>>, "Background"),
            <<"2", ".", "1", ".", SP, "History">>, <<>>,
            <<"#", "#", SP, "3", ".", SP, "Latest", SP, "Papers", ":">>,
            <<"3", ".", "1", ".", SP, "Recent", SP, "Work">>, <<>>,
            SectionLine(<<"4", ".", SP>>, "Conclusion") >>)

PlanOutlines == AsmOutlines \cup {ExampleOutline}

\* oracle behaviours while planning: every verdict text, or a raising call
PlanOracles ==
    { o \in [fail : {"none", "planner", "classify"}, mentions : {FALSE},
             verdict : Verdicts, short : {FALSE}] :
        o.fail # "none" => o.verdict = <<"LLM">> }

\* lines the outlines given to the content generator are made of
GenLines ==
    { SectionLine(<<"2", ".", SP>>, "Background"),
      <<"2", ".", "1", ".", SP, "History">>,
      <<"2", ".", "2", SP, "Methods">>,
      SectionLine(<<"4", ".", SP>>, "Conclusion") }

GenOutlines ==
    { Join(<<NL>>, <<TitleLine>> \o body) : body \in SeqsUpTo(GenLines, MaxAsmLines) }

GenOracles ==
    [fail : {"none"}, mentions : {FALSE}, verdict : {<<"LLM">>, <<"index">>},
     short : {FALSE}]

GenStart(outl, o) ==
    [stage |-> "start", outline |-> outl, oracle |-> o, queries |-> <<>>,
     title |-> <<>>, parsed |-> FALSE, structure |-> <<>>, i |-> 1, j |-> 1,
     contents |-> <<>>, log |-> <<>>, ncalls |-> 0]

InitPlan ==
    /\ Idle
    /\ asm = NoAsm
    /\ call = NoCall
    /\ \E outl \in PlanOutlines, o \in PlanOracles : gen = GenStart(outl, o)

InitGen ==
    /\ Idle
    /\ asm = NoAsm
    /\ call = NoCall
    /\ \E outl \in GenOutlines, o \in GenOracles : gen = GenStart(outl, o)

\* lines 366-371: queries_generation_event
PlanQueries ==
    /\ gen.stage = "start"
    /\ \E plan \in {parse_outline_and_generate_queries(gen.oracle, gen.outline)} :
          IF plan.raised
          THEN gen' = [gen EXCEPT !.stage = "raised", !.ncalls = plan.ncalls]
          ELSE gen' = [gen EXCEPT !.stage = "planned",
                                  !.queries = plan.queries,
                                  !.title = plan.title,
                                  !.ncalls = plan.ncalls]
    /\ UNCHANGED <<orch, asm, call>>

\* line 97 of report_generator.py: the structure of the outline
ParseStructure ==
    /\ ~gen.parsed
    /\ gen' = [gen EXCEPT !.parsed = TRUE,
                          !.structure = _parse_outline_structure(gen.outline)]
    /\ UNCHANGED <<orch, asm, call>>

\* changed: storing a content replaces the section's entries by it
StoreContent_Overwrite(contents, section, j, subsection, content) ==
    DictSet(contents, section, << <<subsection, content>> >>)

\* lines 317, 353, 358: section_contents[section] = {} before the section's
\* first record (j = 1), then section_contents[section][subsection] = content
StoreContent(contents, section, j, subsection, content) ==
    DictSet(contents, section,
            DictSet(IF j = 1 THEN <<>> ELSE DictGet(contents, section),
                    subsection, content))

\* lines 314-358: one iteration of the inner loop of generate_section_content,
\* on the record j of the section i
GenRecord ==
    /\ gen.stage = "planned"
    /\ gen.i <= Len(gen.queries)
    /\ \E b \in RecBehaviours :
       \E section \in {gen.queries[gen.i][1]},
          subsection \in {gen.queries[gen.i][2][gen.j][1]},
          data \in {gen.queries[gen.i][2][gen.j][2]} :
       \E out \in {RecordOutcome(gen.oracle, b, section, subsection, data)} :
          gen' = [gen EXCEPT
                    !.contents = StoreContent(gen.contents, section, gen.j,
                                              subsection, out.content),
                    !.log = Append(@, [section |-> section,
                                       subsection |-> subsection,
                                       data |-> data,
                                       behaviour |-> b,
                                       asked |-> out.asked]),
                    !.i = IF gen.j < Len(gen.queries[gen.i][2]) THEN @ ELSE @ + 1,
                    !.j = IF gen.j < Len(gen.queries[gen.i][2]) THEN @ + 1 ELSE 1]
    /\ UNCHANGED <<orch, asm, call>>

\* line 360
GenReturn ==
    /\ gen.stage = "planned"
    /\ gen.i > Len(gen.queries)
    /\ gen' = [gen EXCEPT !.stage = "returned"]
    /\ UNCHANGED <<orch, asm, call>>

NextPlan == PlanQueries \/ ParseStructure

SpecPlan == InitPlan /\ [][NextPlan]_vars

NextGen == PlanQueries \/ GenRecord \/ GenReturn

SpecGen == InitGen /\ [][NextGen]_vars

-----------------------------------------------------------------------------
(* Properties of the orchestrator *)

Terminal == pc \in {"returned", "raised"}

\* what a primary invocation gave, judged on its text
Kind(r) == IF r.raised THEN "raised"
           ELSE IF r.response # <<>> /\ HasWord(r.response, ConclMarkers)
           THEN "complete"
           ELSE "incomplete"

Kinds == [i \in 1..Len(outcomes) |-> Kind(outcomes[i])]

\* the retry loop was reached
LoopReached == calls.corpus = 1 /\ result.where # "corpus"

\* all max_retries attempts were made and none gave a valid report
Exhausted ==
    /\ LoopReached
    /\ Len(outcomes) = max_retries
    /\ \A i \in 1..Len(outcomes) : Kinds[i] # "complete"

C2_Original ==
    pc = "returned" =>
        /\ result.success
        /\ result.outline = outline
        /\ result.response # <<>>
        /\ HasWord(result.response, ConclMarkers)

\* C2 as amended: a run ends by raising or by returning success = true with
\* the outline used and a non-empty response; a response returned by a
\* primary attempt contains "Conclusion", while the response of the fallback
\* is the "\n\n"-join of the block results, returned without that check.
C2_ReturnedResult ==
    /\ (pc = "raised") = (result.status = "raised")
    /\ (pc = "returned") = (result.status = "returned")
    /\ ~Terminal => result = NoResult
    /\ pc = "returned" =>
          /\ result.success
          /\ result.outline = outline
          /\ result.response # <<>>
          /\ calls.fallback = 0 =>
                /\ HasWord(result.response, ConclMarkers)
                /\ result.response = outcomes[Len(outcomes)].response
          /\ calls.fallback = 1 =>
                result.response = Join(<<NL, NL>>, full_report)

C2_Witness ==
    /\ pc = "returned"
    /\ calls.fallback = 1
    /\ result.success
    /\ ~HasWord(result.response, ConclMarkers)

\* C3: while every attempt so far returned an incomplete report and attempts
\* remain, the run neither raises nor falls back nor returns; and when the
\* first max_retries - 1 attempts were incomplete and the last is complete,
\* the run returns that report with success = true after exactly max_retries
\* workflow invocations, without fallback.
C3_RetryUntilComplete ==
    /\ ( /\ LoopReached
         /\ Len(outcomes) < max_retries
         /\ \A i \in 1..Len(outcomes) : Kinds[i] = "incomplete" )
       => /\ pc = "attempt"
          /\ attempt = Len(outcomes)
          /\ result = NoResult
          /\ calls.fallback = 0
    /\ ( /\ max_retries >= 1
         /\ Len(outcomes) = max_retries
         /\ \A i \in 1..(max_retries - 1) : Kinds[i] = "incomplete"
         /\ Kinds[max_retries] = "complete" )
       => /\ pc = "returned"
          /\ result.success
          /\ result.response = outcomes[max_retries].response
          /\ calls.workflow = max_retries
          /\ calls.fallback = 0

C3_Witness ==
    /\ max_retries = 2
    /\ Kinds = <<"incomplete", "complete">>
    /\ pc = "returned"
    /\ calls.workflow = 2

\* C4 as claimed: when every attempt returned an incomplete report, the run
\* ends returning success = true with the concatenation of the block
\* results, a stub standing for each block whose invocation raised.
AllIncomplete ==
    /\ Exhausted
    /\ \A i \in 1..Len(outcomes) : Kinds[i] = "incomplete"

C4_Claim ==
    (Terminal /\ AllIncomplete /\ max_retries >= 1) =>
        /\ pc = "returned"
        /\ result.success
        /\ result.response = Join(<<NL, NL>>, full_report)
        /\ \A b \in blockRaised :
              \E k \in 1..Len(entries) :
                 entries[k] = b /\ Contains(full_report[k], StubText)

\* C5 as claimed: no exception raised while generating a block, the intro
\* block included, leaves the fallback.
C5_Claim == ~(pc = "raised" /\ result.where = "fallback")

\* text is an entry block b can give: the text of an invocation on the
\* block that returned, or (after the intro block) the block's stub
BlockOutput(b, text) ==
    IF b = 0
    THEN \E o \in RunOracles : \E r \in {AgentRun(o, IntroOutline(sections))} :
            ~r.raised /\ r.response = text
    ELSE \/ text = SectionStub(sections[b + 1])[2]
         \/ \E o \in RunOracles : \E r \in {AgentRun(o, sections[b + 1])} :
               ~r.raised /\ extract_section_content(r.response) = text

\* C6: the response of the fallback is the "\n\n"-join of one entry per block
\* in the order of the blocks: the intro block (title block and first
\* section) first, then every later section, each entry being the output or
\* the stub of its own block.
C6_BlocksInOrder ==
    (pc = "returned" /\ calls.fallback = 1) =>
        /\ entries = [k \in 1..Len(entries) |-> IF k = 1 THEN 0 ELSE k]
        /\ Len(entries) = (IF Len(sections) > 1 THEN Len(sections) - 1 ELSE 1)
        /\ Len(full_report) = Len(entries)
        /\ \A k \in 1..Len(entries) : BlockOutput(entries[k], full_report[k])
        /\ result.response = Join(<<NL, NL>>, full_report)

C6_Witness ==
    /\ pc = "returned"
    /\ calls.fallback = 1
    /\ Len(sections) = 4
    /\ entries = <<0, 2, 3>>
    /\ full_report[2] # full_report[3]

\* C7: with a credential missing the run fails at once with the
\* configuration error: no oracle call, no corpus action, no workflow
\* invocation, no retry.
C7_ConfigErrorFirst ==
    (~env.OPENAI_API_KEY \/ ~env.LLAMA_CLOUD_API_KEY) =>
        /\ pc \in {"start", "raised"}
        /\ pc = "raised" => result.where = "config"
        /\ calls = [llm |-> 0, corpus |-> 0, workflow |-> 0, fallback |-> 0]
        /\ outcomes = <<>>
        /\ outline = <<>>

C7_Witness ==
    /\ pc = "raised"
    /\ result.where = "config"
    /\ env.OPENAI_API_KEY
    /\ ~env.LLAMA_CLOUD_API_KEY


-----------------------------------------------------------------------------
(* Properties of the report assembler, checked under SpecAsm *)

Assembled == asm.stage = "done" /\ ~asm.out.raised

\* the outline's lines after the title line, stripped
BodyLines ==
    LET ls == Tail(SplitLines(Strip(asm.outline)))
    IN  [i \in 1..Len(ls) |-> Strip(ls[i])]

AsmSecs == _parse_outline_structure(asm.outline)

\* L stands for BodyLines and S for AsmSecs in what follows
SecPos(L) == { i \in 1..Len(L) : StartsWith(L[i], <<"#", "#", SP>>) }

\* the section a line belongs to; 0 before the first section line
SecOf(L, p) == MaxOf({0} \cup { i \in SecPos(L) : i <= p })

SubPos(L) == { j \in 1..Len(L) :
                 j \notin SecPos(L) /\ SecOf(L, j) # 0 /\ SubsectionShaped(L[j]) }

\* position of a section line among the section lines, and of a
\* subsection line among the subsection lines of its section
SecRank(L, i) == Cardinality({ q \in SecPos(L) : q <= i })
SubRank(L, j) ==
    Cardinality({ q \in SubPos(L) : SecOf(L, q) = SecOf(L, j) /\ q <= j })

SecInfo(L, S, i) == S[SecRank(L, i)]
SubInfo(L, S, j) == SecInfo(L, S, SecOf(L, j)).subsections[SubRank(L, j)]

\* the key the query records of a section line are stored under
SecKey(L, i) == Strip(StripChars(L[i], {"#", SP}))

Special(L, S, i) == HasWord(SecInfo(L, S, i).title, IntroWords \cup ConclWords)

HeadAt(L, S, p) ==
    IF p \in SecPos(L)
    THEN Heading(<<"#", "#">>, SecInfo(L, S, p).number, SecInfo(L, S, p).title)
    ELSE Heading(<<"#", "#", "#">>, SubInfo(L, S, p).number, SubInfo(L, S, p).title)

\* the headings of the outline, in outline order
ExpectedHeadings(L, S) ==
    LET P == SecPos(L) \cup SubPos(L)
    IN  [k \in 1..Cardinality(P) |->
            HeadAt(L, S, CHOOSE p \in P : Cardinality({ q \in P : q <= p }) = k)]

IsHeading(l) ==
    StartsWith(l, <<"#", "#", SP>>) \/ StartsWith(l, <<"#", "#", "#", SP>>)

ReportHeadings == SelectSeq(SplitLines(asm.out.report), IsHeading)

\* every query record has its entry in the content map
EveryRecordHasContent ==
    \A i \in 1..Len(asm.queries) :
        /\ DictHas(asm.contents, asm.queries[i][1])
        /\ \A j \in 1..Len(asm.queries[i][2]) :
              DictHas(DictGet(asm.contents, asm.queries[i][1]),
                      asm.queries[i][2][j][1])

\* the content mapped to the leaf at line p, as a set: empty when the
\* leaf has no record
LeafContent(L, p) ==
    LET sk  == SecKey(L, SecOf(L, p))
        sub == IF p \in SecPos(L) THEN <<"General">> ELSE L[p]
    IN  IF DictHas(asm.contents, sk) /\ DictHas(DictGet(asm.contents, sk), sub)
        THEN {DictGet(DictGet(asm.contents, sk), sub)}
        ELSE {}

Leaves(L, S) ==
    { p \in SecPos(L) \cup SubPos(L) :
        /\ ~Special(L, S, SecOf(L, p))
        /\ p \in SecPos(L) => ~\E j \in SubPos(L) : SecOf(L, j) = p }

\* C8: given a content map with an entry for every query record, the
\* report of format_report has every section and subsection heading of the
\* outline exactly once, in outline order, and the heading of every leaf
\* that is neither introduction nor conclusion is followed immediately by
\* the content mapped to it.
C8_Claim ==
    (Assembled /\ EveryRecordHasContent) =>
        \E L \in {BodyLines}, S \in {AsmSecs} :
            /\ ReportHeadings = ExpectedHeadings(L, S)
            /\ \A p \in Leaves(L, S) : \A c \in LeafContent(L, p) :
                  Contains(asm.out.report,
                           HeadAt(L, S, p) \o <<NL, NL>> \o c \o <<NL>>)

\* C9: whatever the outline and the content map, entries missing or keys
\* being unnumbered single words, format_report returns a report and does
\* not raise when the completion oracle succeeds.
C9_Claim ==
    (asm.stage = "done" /\ asm.oracle.fail = "none") => ~asm.out.raised

\* the report cut at its `## ` lines: the title block, then one block per
\* section
ReportBlocks == parse_outline_sections(asm.out.report)

FreshProse(title) ==
    IF HasWord(title, IntroWords)
    THEN Prose(asm.oracle, "OpeningProse")
    ELSE Prose(asm.oracle, "ClosingProse")

\* what the content map holds for the records stored under a key
OwnEntries(key) ==
    IF DictHas(asm.contents, key)
    THEN LET sc == DictGet(asm.contents, key)
         IN  { sc[j][2] : j \in 1..Len(sc) }
    ELSE {}

\* C10: under the heading of every section whose title contains
\* "introduction" or "conclusion", the assembled report carries the text
\* the completion oracle returned during assembly, and nothing else: the
\* content map's entry for the section's own record is not emitted there.
C10_FreshIntroConclusion ==
    Assembled =>
        \E L \in {BodyLines}, S \in {AsmSecs}, B \in {ReportBlocks} :
            /\ Len(B) = Len(S) + 1
            /\ \A i \in SecPos(L) : Special(L, S, i) =>
                  /\ Strip(B[SecRank(L, i) + 1]) =
                         HeadAt(L, S, i) \o <<NL, NL>>
                             \o FreshProse(SecInfo(L, S, i).title)
                  /\ \A c \in OwnEntries(SecKey(L, i)) :
                         ~Contains(B[SecRank(L, i) + 1], c)

\* an assembled report with an introduction and a conclusion section, both
\* of which have an entry in the content map
C10_Witness ==
    /\ Assembled
    /\ \E L \in {BodyLines}, S \in {AsmSecs} : \E i, k \in SecPos(L) :
          /\ HasWord(SecInfo(L, S, i).title, IntroWords)
          /\ HasWord(SecInfo(L, S, k).title, ConclWords)
          /\ OwnEntries(SecKey(L, i)) # {}
          /\ OwnEntries(SecKey(L, k)) # {}


-----------------------------------------------------------------------------
(* Properties of the content generator, checked under SpecGen *)

\* the content stored for the record of a log entry
Stored(e) == DictGet(DictGet(gen.contents, e.section), e.subsection)

\* the first answer of the behaviour does not pass the quality gate
FirstTooShort(b) == b.first \in {"short", "empty", "len49"}

\* a call made for the record raises
Raises(b) == b.first = "raise" \/ (FirstTooShort(b) /\ b.fallback = "raise")

RECURSIVE NumRecords(_, _)
NumRecords(queries, i) ==
    IF i > Len(queries) THEN 0
    ELSE Len(queries[i][2]) + NumRecords(queries, i + 1)

\* C11: an exception raised for one query record (by the first call or by
\* the fallback call) becomes the error message stored for that record
\* only; generate_section_content goes on to the end, every record is
\* processed once and every other record holds its own content.
C11_ErrorsStayLocal ==
    /\ \A k \in 1..Len(gen.log) :
          \E e \in {gen.log[k]} : \E c \in {Stored(e)} :
             /\ Raises(e.behaviour) => c = ErrorContent
             /\ ~Raises(e.behaviour) =>
                   /\ c # ErrorContent
                   /\ e.behaviour.first = "long" => Contains(c, e.data.query)
    /\ gen.stage = "raised" => gen.log = <<>>
    /\ gen.stage = "returned" =>
          /\ Len(gen.log) = NumRecords(gen.queries, 1)
          /\ \A i \in 1..Len(gen.queries) : \A j \in 1..Len(gen.queries[i][2]) :
                /\ DictHas(gen.contents, gen.queries[i][1])
                /\ DictHas(DictGet(gen.contents, gen.queries[i][1]),
                           gen.queries[i][2][j][1])

\* a finished run in which the first record raised and the second did not
C11_Witness ==
    /\ gen.stage = "returned"
    /\ Len(gen.log) = 2
    /\ gen.log[1].behaviour.first = "raise"
    /\ gen.log[2].behaviour.first = "long"
    /\ Stored(gen.log[1]) = ErrorContent
    /\ Stored(gen.log[2]) # ErrorContent

C13_FirstOracleByClass ==
    \A k \in 1..Len(gen.log) :
       \E e \in {gen.log[k]} :
          /\ e.data.classification \in {<<"LLM">>, <<"INDEX">>}
          /\ e.data.classification = <<"LLM">> =>
                \A m \in 1..Len(e.asked) : e.asked[m] = "completion"
          /\ e.data.classification = <<"INDEX">> => e.asked[1] = "retrieval"

\* a record classified INDEX asked of the retrieval oracle, then of the
\* completion oracle for the fallback
C13_Witness ==
    /\ Len(gen.log) >= 1
    /\ gen.log[1].data.classification = <<"INDEX">>
    /\ gen.log[1].asked = <<"retrieval", "completion">>


-----------------------------------------------------------------------------
(* Properties of the planner and of the structure parser, checked under    *)
(* SpecPlan *)

Planned == gen.stage = "planned"

\* the lines of the planner's outline after the title line, stripped
PlanBody ==
    LET ls == Tail(SplitLines(Strip(gen.outline)))
    IN  [i \in 1..Len(ls) |-> Strip(ls[i])]

HasSubsections(L, i) == \E j \in SubPos(L) : SecOf(L, j) = i

\* the leaves of the outline: subsection lines, and sections without any
PlanLeaves(L) == SubPos(L) \cup { i \in SecPos(L) : ~HasSubsections(L, i) }

LeafKey(L, p) == IF p \in SecPos(L) THEN <<"General">> ELSE L[p]

\* C14: after planning, every leaf of the outline (subsection line, or
\* "General overview" leaf of a section without subsections) has exactly
\* one query record, repeated section headings and subsection lines
\* included.
C14_Claim ==
    Planned =>
        \E L \in {PlanBody} :
            /\ NumRecords(gen.queries, 1) = Cardinality(PlanLeaves(L))
            /\ \A p \in PlanLeaves(L) :
                  /\ DictHas(gen.queries, SecKey(L, SecOf(L, p)))
                  /\ DictHas(DictGet(gen.queries, SecKey(L, SecOf(L, p))),
                             LeafKey(L, p))

\* C15: the classification of every query record is "LLM" or "INDEX": it
\* is "LLM" when the oracle's text, trimmed and upper-cased, is LLM, and
\* "INDEX" for every other text.
C15_ClassificationCoerced ==
    Planned =>
        \A i \in 1..Len(gen.queries) : \A j \in 1..Len(gen.queries[i][2]) :
           \E c \in {gen.queries[i][2][j][2].classification} :
              /\ c \in {<<"LLM">>, <<"INDEX">>}
              /\ c = IF gen.oracle.verdict \in {<<"LLM">>, <<SP, "llm", NL>>}
                     THEN <<"LLM">> ELSE <<"INDEX">>

\* a plan whose records were classified from a text that is neither token
C15_Witness ==
    /\ Planned
    /\ gen.oracle.verdict = <<"LLM", SP, "INDEX">>
    /\ Len(gen.queries) >= 1
    /\ gen.queries[1][2][1][2].classification = <<"INDEX">>

\* the records the example outline is said to get
ExampleRecords ==
    /\ Len(gen.queries) = 4
    /\ \A i \in 1..4 : Len(gen.queries[i][2]) = 1
    /\ gen.queries[1][2][1][1] = <<"General">>
    /\ gen.queries[2][2][1][1] = <<"2", ".", "1", ".", SP, "History">>
    /\ gen.queries[3][2][1][1] = <<"3", ".", "1", ".", SP, "Recent", SP, "Work">>
    /\ gen.queries[4][2][1][1] = <<"General">>

\* C16: after planning every section of the outline has at least one query
\* record: exactly one, synthesized under "General" with the subsection
\* title "General overview", when it has no subsection lines, and no
\* synthesized record when it has some; the example outline gets the
\* records described.
C16_Claim ==
    Planned =>
        \E L \in {PlanBody} :
            /\ \A i \in SecPos(L) :
                  /\ DictHas(gen.queries, SecKey(L, i))
                  /\ \E recs \in {DictGet(gen.queries, SecKey(L, i))} :
                        /\ Len(recs) >= 1
                        /\ ~HasSubsections(L, i) =>
                              /\ Len(recs) = 1
                              /\ recs[1][1] = <<"General">>
                              /\ Contains(recs[1][2].query,
                                          <<"General", SP, "overview">>)
                        /\ HasSubsections(L, i) => ~DictHas(recs, <<"General">>)
            /\ gen.outline = ExampleOutline => ExampleRecords

IsSuffix(t, l) == Len(t) <= Len(l) /\ SubSeq(l, Len(l) - Len(t) + 1, Len(l)) = t

\* C17: the structure parsed from an outline has one section per `## `
\* line, in the order of the lines, and every subsection-shaped line is a
\* subsection of the section whose line most recently precedes it and of
\* no other; no other line adds anything.
C17_StructureFollowsLines ==
    gen.parsed =>
        \E L \in {PlanBody}, S \in {gen.structure} :
            /\ Len(S) = Cardinality(SecPos(L))
            /\ \A i \in SecPos(L) :
                  \E sec \in {S[SecRank(L, i)]} :
                     /\ IsSuffix(sec.title, L[i])
                     /\ Len(sec.subsections) =
                            Cardinality({ j \in SubPos(L) : SecOf(L, j) = i })
                     /\ \A j \in SubPos(L) : SecOf(L, j) = i =>
                           \E sub \in {sec.subsections[SubRank(L, j)]} :
                              /\ IsSuffix(sub.title, L[j])
                              /\ StartsWith(L[j], SubSeq(sub.number, 1,
                                                         Len(sub.number) - 1))

\* two section lines followed by a subsection line, which is attached to
\* the second section and not to the first
C17_Witness ==
    /\ gen.parsed
    /\ Len(gen.structure) = 2
    /\ Len(gen.structure[1].subsections) = 0
    /\ Len(gen.structure[2].subsections) = 1
    /\ \E L \in {PlanBody} : Len(L) = 3 /\ SubsectionShaped(L[3])

\* a subsection-shaped line stands before the first section line
EarlySubsection(L) ==
    \E j \in 1..Len(L) : SecOf(L, j) = 0 /\ SubsectionShaped(L[j])

\* C18: a subsection-shaped line before any section line is dropped
\* silently: planning does not raise because of it, and it gives no
\* subsection in the structure and no query record.
C18_Claim ==
    \E L \in {PlanBody} :
       (EarlySubsection(L) /\ gen.oracle.fail = "none") =>
           /\ gen.stage # "raised"
           /\ gen.parsed =>
                 \A k \in 1..Len(gen.structure) :
                     Len(gen.structure[k].subsections) =
                         Cardinality({ j \in SubPos(L) : SecRank(L, SecOf(L, j)) = k })
           /\ Planned => NumRecords(gen.queries, 1) = Cardinality(PlanLeaves(L))


-----------------------------------------------------------------------------
(* Properties of the outline post-processing, checked under Spec *)

StartsWithTitle(outl) == StartsWith(outl, TitlePrefix)

\* some line of the outline is a `## ` heading naming the conclusion
HasConclusionHeading(outl) ==
    \E ls \in {SplitLines(outl)} :
        \E k \in 1..Len(ls) :
            /\ StartsWith(Strip(ls[k]), <<"#", "#", SP>>)
            /\ HasWord(ls[k], ConclMarkers)

PostProcessed(outl) == generate_outline_from_query(QueryText, outl) = outl

\* C19: the outline generate_outline_from_query returns, whatever text the
\* completion oracle gave, starts with a title line and contains a
\* conclusion section heading, and post-processing it again changes nothing.
C19_Claim ==
    outline # <<>> =>
        /\ StartsWithTitle(outline)
        /\ HasConclusionHeading(outline)
        /\ PostProcessed(outline)


-----------------------------------------------------------------------------
(* The call of initialize_research_pipeline by its two callers.  call =    *)
(* [stage, caller, keywords, max_retries, custom_outline]: the keyword     *)
(* arguments of the call expression; max_retries and custom_outline hold   *)
(* the values passed under those keywords (the default and the empty text  *)
(* when the keyword is absent).                                            *)

\* src/main.py line 70: the parameters of initialize_research_pipeline
Parameters == {"query", "model", "max_retries"}
DefaultMaxRetries == 3

\* src/app.py lines 387-396: the outline filtered to the selected sections
\* and, under a selected section, to its selected subsection lines
FilteredOutline(lines) ==
    <<"#", SP, "Research", SP, "Paper", SP, "Report", NL, NL>>
        \o Join(<<>>, [k \in 1..Len(lines) |-> lines[k] \o <<NL, NL>>])

UiLines ==
    { SectionLine(<<"2", ".", SP>>, "Background"),
      <<"2", ".", "1", ".", SP, "History">>,
      SectionLine(<<"4", ".", SP>>, "Conclusion") }

\* src/main.py line 262 (command line) and src/app.py lines 437-443 (UI)
CallSites ==
    { [stage |-> "call", caller |-> "cli", keywords |-> {"query", "model"},
       max_retries |-> DefaultMaxRetries, custom_outline |-> <<>>] }
    \cup
    { [stage |-> "call", caller |-> "ui",
       keywords |-> {"query", "pdf", "model", "max_retries", "custom_outline"},
       max_retries |-> 1, custom_outline |-> FilteredOutline(lines)] :
        lines \in { l \in SeqsUpTo(UiLines, MaxOutlineLines) :
                       l # <<>> => StartsWith(l[1], <<"#", "#", SP>>) } }

InitCall ==
    /\ pc = "call"
    /\ call \in CallSites
    /\ env \in [OPENAI_API_KEY : BOOLEAN, LLAMA_CLOUD_API_KEY : BOOLEAN]
    /\ max_retries = DefaultMaxRetries
    /\ outline = <<>>
    /\ sections = <<>>
    /\ attempt = 0
    /\ blk = 0
    /\ full_report = <<>>
    /\ result = NoResult
    /\ outcomes = <<>>
    /\ entries = <<>>
    /\ blockRaised = {}
    /\ calls = [llm |-> 0, corpus |-> 0, workflow |-> 0, fallback |-> 0]
    /\ asm = NoAsm
    /\ gen = NoGen

\* the keyword arguments are bound to the parameters of line 70: a keyword
\* that names no parameter raises TypeError before the body runs
BindArguments ==
    /\ pc = "call"
    /\ call' = [call EXCEPT !.stage = "bound"]
    /\ IF call.keywords \subseteq Parameters
       THEN /\ pc' = "start"
            /\ max_retries' = IF "max_retries" \in call.keywords
                              THEN call.max_retries ELSE DefaultMaxRetries
            /\ UNCHANGED result
       ELSE /\ pc' = "raised"
            /\ result' = Raised("call")
            /\ UNCHANGED max_retries
    /\ UNCHANGED <<env, outline, sections, attempt, blk, full_report,
                   outcomes, entries, blockRaised, calls, asm, gen>>

NextCall == BindArguments \/ Next

SpecCall == InitCall /\ [][NextCall]_vars

\* C20: initialize_research_pipeline accepts an optional custom outline:
\* when the caller supplies one, as the UI does, the call is accepted, the
\* run works on that outline and the returned result carries it; when none
\* is supplied the outline generated from the query is used and returned.
C20_Claim ==
    call.stage = "bound" =>
        /\ "custom_outline" \in call.keywords =>
              /\ result # Raised("call")
              /\ outline # <<>> => outline = call.custom_outline
              /\ result.status = "returned" =>
                     result.outline = call.custom_outline
        /\ "custom_outline" \notin call.keywords =>
              (result.status = "returned" =>
                     outline # <<>> /\ result.outline = outline)


-----------------------------------------------------------------------------
(* Further properties of the assembler, checked under SpecAsm (C29 under   *)
(* SpecWorkflow) *)

\* format_report reached a conclusion section and generated its text
ConclusionGenerated(L, S) ==
    /\ Assembled
    /\ \E i \in SecPos(L) : /\ ~HasWord(SecInfo(L, S, i).title, IntroWords)
                            /\ HasWord(SecInfo(L, S, i).title, ConclWords)

\* C21: the content samples _generate_conclusion puts into its prompt come
\* only from sections that are neither introduction nor conclusion
\* sections: none was stored under a key containing "introduction" or
\* "conclusion".
C21_Claim ==
    \E L \in {BodyLines}, S \in {AsmSecs} :
        ConclusionGenerated(L, S) =>
            \E snips \in {ConclusionSnippets(asm.contents)} :
                \A k \in 1..Len(snips) :
                    ~HasWord(snips[k].section, IntroWords \cup ConclWords)


\* the keys format_report composes for the section at line i and the
\* subsection at line j (lines 109 and 147)
ComposedSecKey(L, S, i) == SecInfo(L, S, i).number \o <<SP>> \o SecInfo(L, S, i).title
ComposedSubKey(L, S, j) == SubInfo(L, S, j).number \o <<SP>> \o SubInfo(L, S, j).title

\* C24: for every section and subsection line the outline parser accepts,
\* the content map built by planning and generation has an entry under the
\* key format_report composes as "<number> <title>", so that assembling the
\* untouched content map never puts a placeholder in the report.
C24_Claim ==
    (asm.stage \in {"generated", "done"} /\ asm.drops = 0) =>
        \E L \in {BodyLines}, S \in {AsmSecs} :
            /\ \A i \in SecPos(L) :
                  DictHas(asm.contents, ComposedSecKey(L, S, i))
            /\ \A j \in SubPos(L) :
                  /\ DictHas(asm.contents, ComposedSecKey(L, S, SecOf(L, j)))
                  /\ DictHas(DictGet(asm.contents, ComposedSecKey(L, S, SecOf(L, j))),
                             ComposedSubKey(L, S, j))
            /\ Assembled => ~HasWord(asm.out.report, {"PlaceholderProse"})

\* a section line that is neither introduction nor conclusion and has no
\* subsection line
BareBodySection(L, S, i) ==
    /\ i \in SecPos(L)
    /\ ~Special(L, S, i)
    /\ ~\E j \in SubPos(L) : SecOf(L, j) = i

\* C25: for a section that is neither introduction nor conclusion and has
\* no subsections, the content generated for its "General" record stands in
\* the assembled report under the section's heading.
C25_Claim ==
    (Assembled /\ asm.drops = 0) =>
        \E L \in {BodyLines}, S \in {AsmSecs} :
            \A i \in SecPos(L) : BareBodySection(L, S, i) =>
                /\ LeafContent(L, i) # {}
                /\ \A c \in LeafContent(L, i) :
                      Contains(asm.out.report, HeadAt(L, S, i) \o <<NL, NL>> \o c)

-----------------------------------------------------------------------------
(* Further properties of the structure parser and the planner, checked     *)
(* under SpecPlan *)

\* the text of a section line carries a leading "<digits>." number
Numbered(text) ==
    \E n \in 1..Len(text) - 1 :
        /\ \A k \in 1..n : text[k] \in Digits
        /\ text[n + 1] = "."

\* the leading "<digits>." of a numbered text
WrittenNumber(text) ==
    SubSeq(text, 1, MinOf({ n \in 1..Len(text) : text[n] = "." }))

\* C22: in the parsed structure a section line without a leading number
\* has the number str(k + 1) + "." where k sections were parsed before it
\* and its whole text as title; a numbered section line keeps the number it
\* was written with, whatever its position, so gaps and repeated numbers
\* stay.
C22_NumbersAsWritten ==
    gen.parsed =>
        \E L \in {PlanBody}, S \in {gen.structure} :
            \A i \in SecPos(L) :
                \E text \in {SecKey(L, i)}, sec \in {S[SecRank(L, i)]} :
                    IF Numbered(text)
                    THEN sec.number = WrittenNumber(text)
                    ELSE /\ sec.number = IntToStr(SecRank(L, i)) \o <<".">>
                         /\ sec.title = text

\* a section written with number 4 parsed first and keeping it, followed by
\* an unnumbered section that gets number 2
C22_Witness ==
    /\ gen.parsed
    /\ Len(gen.structure) = 2
    /\ gen.structure[1].number = <<"4", ".">>
    /\ gen.structure[2].number = <<"2", ".">>
    /\ \E L \in {PlanBody} : \E i \in SecPos(L) : ~Numbered(SecKey(L, i))


\* the query records built while planning: one per subsection line under a
\* section, one per section left with the synthesized "General" record
RecordsBuilt(L) ==
    Cardinality(SubPos(L))
        + Cardinality({ i \in 1..Len(gen.queries) :
                          DictHas(gen.queries[i][2], <<"General">>) })

\* a line for which the planner calls the oracle
AsksOracle(L) ==
    \E j \in 1..Len(L) : StartsWith(L[j], <<"#", "#", SP>>) \/ SubsectionShaped(L[j])

\* C23: the planner makes two completion-oracle calls for every query
\* record it builds, the query call and then the classification call, and
\* repeats none: when either call raises, planning stops at that call with
\* nothing planned and the workflow run raises, which leaves the exception
\* to the orchestrator's attempt loop.
C23_TwoCallsNoRetry ==
    \E L \in {PlanBody} :
        /\ Planned => gen.ncalls = 2 * RecordsBuilt(L)
        /\ (gen.stage # "start" /\ gen.oracle.fail # "none" /\ AsksOracle(L)) =>
              /\ gen.stage = "raised"
              /\ gen.queries = <<>>
              /\ gen.oracle.fail = "planner" => gen.ncalls = 1
              /\ gen.oracle.fail = "classify" => gen.ncalls = 2
              /\ AgentRun(gen.oracle, gen.outline).raised

\* planning stopped at a classification call that raised, on an outline
\* with further records to plan
C23_Witness ==
    /\ gen.stage = "raised"
    /\ gen.oracle.fail = "classify"
    /\ gen.ncalls = 2
    /\ \E L \in {PlanBody} : Cardinality(SecPos(L)) >= 2


-----------------------------------------------------------------------------
(* Further properties of the orchestrator, checked under Spec *)

\* C28: whatever the workflow invocations give, the primary loop makes at
\* most max_retries of them, makes none after one that returned a valid
\* report (the run returns it), and the fallback is started at most once
\* and only after max_retries primary invocations, none of which gave a
\* valid report; with max_retries = 0 it starts with no primary invocation.
C28_AtMostMaxRetries ==
    /\ Len(outcomes) <= max_retries
    /\ calls.fallback <= 1
    /\ calls.fallback = 0 => calls.workflow = Len(outcomes)
    /\ calls.fallback = 1 =>
          /\ Len(outcomes) = max_retries
          /\ \A i \in 1..Len(outcomes) : Kinds[i] # "complete"
    /\ \A i \in 1..Len(outcomes) : Kinds[i] = "complete" =>
          /\ i = Len(outcomes)
          /\ pc = "returned"
          /\ calls.workflow = i
          /\ calls.fallback = 0

\* the fallback started after two primary invocations, the first of which
\* raised
C28_Witness ==
    /\ max_retries = 2
    /\ calls.fallback = 1
    /\ Len(outcomes) = 2
    /\ Kinds[1] = "raised"
    /\ calls.workflow >= 3

\* the oracle behaviours in which no call raises
SucceedingOracles == { o \in RunOracles : o.fail = "none" }

\* the blocks after the intro block the fallback loop has gone through, as
\* indexes of sections (Python's i plus one)
BlocksDone == IF pc \in {"fallback_loop", "returned"} /\ blk >= 2
              THEN 3..MinOf({blk, Len(sections)}) ELSE {}

\* C26: in the fallback path every block after the intro block is the
\* outline of a workflow invocation of its own, and when the oracles
\* succeed the invocation does not raise and its text has the block's
\* `## ` line as a section heading.
C26_Claim ==
    \A b \in BlocksDone : \A o \in SucceedingOracles :
        \E run \in {AgentRun(o, sections[b])} :
            /\ ~run.raised
            /\ \E ls \in {SplitLines(run.response)} :
                  \E k \in 1..Len(ls) :
                      ls[k] = SplitLines(sections[b])[1]


-----------------------------------------------------------------------------
(* Further properties of the content generator, checked under SpecGen *)

\* the number of query records in the sections before section i
RECURSIVE RecordsBefore(_, _)
RecordsBefore(queries, i) ==
    IF i <= 1 THEN 0
    ELSE RecordsBefore(queries, i - 1) + Len(queries[i - 1][2])

\* C27: when generate_section_content returns, the content map has the
\* section keys of the query map and, under each, the subsection keys of
\* the query map, no more and no fewer, and every entry is the content that
\* was generated for its own record.
C27_ContentMirrorsQueries ==
    gen.stage = "returned" =>
        \E Q \in {gen.queries}, C \in {gen.contents} :
            /\ Len(C) = Len(Q)
            /\ \A i \in 1..Len(Q) :
                  /\ C[i][1] = Q[i][1]
                  /\ Len(C[i][2]) = Len(Q[i][2])
                  /\ \A j \in 1..Len(Q[i][2]) :
                        \E e \in {gen.log[RecordsBefore(Q, i) + j]} :
                           /\ C[i][2][j][1] = Q[i][2][j][1]
                           /\ e.section = Q[i][1]
                           /\ e.subsection = Q[i][2][j][1]
                           /\ C[i][2][j][2] =
                                  RecordOutcome(gen.oracle, e.behaviour, e.section,
                                                e.subsection, e.data).content

\* a finished run over a section with two records, in which the first
\* record holds an error string and the second an answer
C27_Witness ==
    /\ gen.stage = "returned"
    /\ Len(gen.queries) = 1
    /\ Len(gen.queries[1][2]) = 2
    /\ Len(gen.contents[1][2]) = 2
    /\ gen.contents[1][2][1][2] = ErrorContent
    /\ gen.contents[1][2][2][2] # ErrorContent


-----------------------------------------------------------------------------
(* parse_outline_sections on any text, not only on the outlines the        *)
(* orchestrator gives it                                                   *)

\* lines a text may be made of: a title, section lines, a subsection line,
\* a blank line, and an indented line that only looks like a section line
TextLines ==
    { TitleLine,
      SectionLine(<<"2", ".", SP>>, "Background"),
      SectionLine(<<"4", ".", SP>>, "Conclusion"),
      <<"2", ".", "1", ".", SP, "History">>,
      <<>>,
      <<SP>> \o SectionLine(<<"4", ".", SP>>, "Conclusion") }

Texts == { Join(<<NL>>, body) : body \in SeqsUpTo(TextLines, MaxOutlineLines) }

InitSections ==
    /\ Idle
    /\ asm = NoAsm
    /\ call = NoCall
    /\ \E text \in Texts :
          gen = [stage |-> "text", outline |-> text, blocks |-> <<>>]

\* src/main.py lines 189-206 applied to the text
SplitSections ==
    /\ gen.stage = "text"
    /\ gen' = [gen EXCEPT !.stage = "split",
                          !.blocks = parse_outline_sections(gen.outline)]
    /\ UNCHANGED <<orch, asm, call>>

SpecSections == InitSections /\ [][SplitSections]_vars

\* C30: parse_outline_sections loses and reorders no line: the blocks
\* joined with a newline are the stripped text, every block after the
\* first begins with a `## ` line, and there is one block per `## ` line,
\* plus one when the first line is not a `## ` line.
C30_BlocksKeepLines ==
    gen.stage = "split" =>
        \E t \in {Strip(gen.outline)}, B \in {gen.blocks} :
        \E ls \in {SplitLines(t)} :
            /\ Join(<<NL>>, B) = t
            /\ \A k \in 2..Len(B) : StartsWith(B[k], <<"#", "#", SP>>)
            /\ Len(B) = Cardinality({ k \in 1..Len(ls) :
                                        StartsWith(ls[k], <<"#", "#", SP>>) })
                        + IF StartsWith(ls[1], <<"#", "#", SP>>) THEN 0 ELSE 1

\* a text that begins with a `## ` line and has a blank line inside its
\* first block, split into two blocks
C30_Witness ==
    /\ gen.stage = "split"
    /\ Len(gen.blocks) = 2
    /\ StartsWith(gen.blocks[1], <<"#", "#", SP>>)
    /\ gen.blocks[1][Len(gen.blocks[1])] = NL

=============================================================================
